---- MODULE Spec2Model ----
(***************************************************************************)
(* Model of the six-step article generator of app.py (a Streamlit script). *)
(*                                                                         *)
(* Streamlit re-executes the whole script, top to bottom, on every user    *)
(* interaction.  A button returns True only in the run that its click      *)
(* started, and only when the run reaches the line that renders it.        *)
(* st.rerun() stops the current run and starts a new one at once, so the   *)
(* model's actions are user interactions: the run the interaction starts   *)
(* plus, when that run ends in st.rerun(), the run that follows.           *)
(*                                                                         *)
(* Texts are sequences of tokens (strings).  The generation service and    *)
(* the CMS are environment: their answers are drawn from small sets.       *)
(*                                                                         *)
(* Spec is the application with its four secrets configured, SpecConfig    *)
(* the application started with any one of them missing, and SpecFilename  *)
(* applies generate_seo_filename to alt texts.                             *)
(***************************************************************************)
EXTENDS Integers, Sequences, FiniteSets, TLC

VARIABLES
  step,           \* st.session_state.step
  article_data,   \* st.session_state.article_data: a dict, here a function on its keys
  images,         \* st.session_state.images
  uploaded_files, \* value of the file_uploader widget (key "image_upload")
  widgets,        \* the enabled widgets of the page the last run rendered
  errors,         \* the messages st.error / st.warning / traceback of that page
  gemini_log,     \* generation requests issued by the last interaction
  gemini_answer,  \* what the generation service answered to that request
  cms_log,        \* CMS requests (and conversions) of the last interaction
  wp_images,      \* the list wp_images the last publish run built
  post_req,       \* the create-post request of the last interaction
  post_ok,        \* whether that request returned 201
  img_outcomes,   \* what the environment did to each image of the last publish run
  failed,         \* the request of the last interaction that failed ("" if none)
  last_click,     \* the widget the last interaction activated
  secrets,        \* the keys st.secrets holds
  inputs,         \* what the user typed and the CMS listed in the last interaction
  filename_in,    \* the arguments of a call of generate_seo_filename, and the date
  filename_out    \* what that call returned (empty before it returns)

vars == << step, article_data, images, uploaded_files, widgets, errors,
           gemini_log, gemini_answer, cms_log, wp_images, post_req, post_ok, img_outcomes,
           failed, last_click, secrets, inputs, filename_in, filename_out >>

(***************************************************************************)
(* Bounds                                                                  *)
(***************************************************************************)
MaxImages == 2      \* longest image plan the generation service returns
MaxFiles == 3       \* most files the user puts in the uploader

(***************************************************************************)
(* Generic helpers                                                         *)
(***************************************************************************)
Range(s) == { s[i] : i \in 1..Len(s) }

Min(a, b) == IF a < b THEN a ELSE b

\* dict.get(k, default)
Get(d, k, default) == IF k \in DOMAIN d THEN d[k] ELSE default

\* d[k] = v
Put(d, k, v) == [ x \in (DOMAIN d) \cup {k} |-> IF x = k THEN v ELSE d[x] ]

\* d.update(e)
DictUpdate(d, e) ==
  [ x \in (DOMAIN d) \cup (DOMAIN e) |-> IF x \in DOMAIN e THEN e[x] ELSE d[x] ]

EmptyDict == [ x \in {} |-> "" ]

\* str.lower() on one token
LowerTok(t) == CASE t = "A" -> "a" [] t = "B" -> "b" [] t = "<H2>" -> "<h2>"
                 [] t = "</H2>" -> "</h2>" [] OTHER -> t

Lower(s) == [ i \in 1..Len(s) |-> LowerTok(s[i]) ]

\* the indices of s where x occurs
Positions(s, x) == { i \in 1..Len(s) : s[i] = x }

\* s[1:], which is empty for the empty list
Rest(s) == IF s = << >> THEN << >> ELSE Tail(s)

\* the element of a one-element set; { F(x) : x \in {v} } names the value v
\* in F, as a local variable of the code does
Only(S) == CHOOSE x \in S : TRUE

SetMin(S) == CHOOSE x \in S : \A y \in S : x <= y
SetMax(S) == CHOOSE x \in S : \A y \in S : x >= y

(***************************************************************************)
(* The generation service (call_gemini) and the JSON found in its answers  *)
(*                                                                         *)
(* A response text is a sequence of tokens: "p" is a character of prose,   *)
(* "{" and "}" are braces, and a token "m:<key>" is one complete member    *)
(* ("<key>": value, separators included) of a JSON object.                 *)
(***************************************************************************)

\* the outcome of model.generate_content(prompt): an exception, or a text
ServiceFailure == [ok |-> FALSE, text |-> << >>]
ServiceText(t) == [ok |-> TRUE, text |-> t]

\* call_gemini returns response.text, or None after reporting the exception
call_gemini(outcome) ==
  [ value  |-> outcome,
    errors |-> IF outcome.ok THEN {} ELSE {"Gemini API Error"} ]

\* "if response:" : neither None nor the empty string
Truthy(response) == response.ok /\ response.text # << >>

\* one image descriptor of a plan; an empty section_heading stands for an
\* absent one (img.get('section_heading') is falsy for both)
SectionHeadingOf(i) ==
  CASE i = 1 -> << >>
    [] i = 2 -> << "b" >>
    [] i = 3 -> << "a", "b" >>
    [] OTHER -> << >>

AltTextOf(i) ==
  CASE i = 1 -> "alt1" [] i = 2 -> "alt2" [] i = 3 -> "alt3" [] i = 4 -> "alt4"
    [] OTHER -> "alt5"

CaptionOf(i) == CASE i = 1 -> "cap1" [] i = 3 -> "cap3" [] OTHER -> ""

Descriptor(i) ==
  [ position        |-> IF i = 1 THEN "featured" ELSE "after_section",
    section_heading |-> SectionHeadingOf(i),
    alt_text        |-> AltTextOf(i),
    caption         |-> CaptionOf(i) ]

PlanImages(n) == [ i \in 1..n |-> Descriptor(i) ]

ImagesTok == << "m:images1", "m:images2", "m:images3", "m:images4", "m:images5" >>

ImagesTokOf(n) == IF n = 0 THEN "m:images0" ELSE ImagesTok[n]

MemberTokens ==
  { "m:title", "m:meta_description", "m:slug", "m:focus_keyphrase", "m:outline",
    "m:suggested_categories", "m:suggested_tags", "m:topic", "m:note",
    "m:images0" } \cup Range(ImagesTok)

MemberKey(t) ==
  CASE t = "m:title" -> "title"
    [] t = "m:meta_description" -> "meta_description"
    [] t = "m:slug" -> "slug"
    [] t = "m:focus_keyphrase" -> "focus_keyphrase"
    [] t = "m:outline" -> "outline"
    [] t = "m:suggested_categories" -> "suggested_categories"
    [] t = "m:suggested_tags" -> "suggested_tags"
    [] t = "m:topic" -> "topic"
    [] t = "m:note" -> "note"
    [] OTHER -> "images"

MemberVal(t) ==
  CASE t = "m:title" -> "Best budget phones"
    [] t = "m:meta_description" -> "Our budget picks"
    [] t = "m:slug" -> "best-budget-phones"
    [] t = "m:focus_keyphrase" -> "budget phones"
    [] t = "m:outline" -> << "sec1", "sec2" >>
    [] t = "m:suggested_categories" -> << << "News" >>, << "Phones" >> >>
    [] t = "m:suggested_tags" -> << << "budget" >> >>
    [] t = "m:topic" -> "a topic of the model"
    [] t = "m:note" -> "no plan"
    [] t = "m:images0" -> PlanImages(0)
    [] OTHER -> PlanImages(CHOOSE n \in 1..Len(ImagesTok) : ImagesTok[n] = t)

NoMatch == [found |-> FALSE, text |-> << >>]

\* re.search(r'\{.*\}', response, re.DOTALL): greedy, from the first "{" to
\* the last "}" behind it
JsonSearch(text) ==
  LET opens == Positions(text, "{")
  IN  IF opens = {} THEN NoMatch
      ELSE LET i == SetMin(opens)
               closes == { j \in Positions(text, "}") : j > i }
           IN  IF closes = {} THEN NoMatch
               ELSE [found |-> TRUE, text |-> SubSeq(text, i, SetMax(closes))]

\* whether json.loads(t) returns (it raises otherwise)
JsonValid(t) ==
  /\ Len(t) >= 2
  /\ t[1] = "{"
  /\ t[Len(t)] = "}"
  /\ \A i \in 2..(Len(t) - 1) : t[i] \in MemberTokens

\* json.loads(t) of a valid t: a repeated key keeps its last value
JsonLoads(t) ==
  LET keys == { MemberKey(t[i]) : i \in 2..(Len(t) - 1) }
      last(k) == SetMax({ i \in 2..(Len(t) - 1) : MemberKey(t[i]) = k })
  IN  [ k \in keys |-> MemberVal(t[last(k)]) ]

(***************************************************************************)
(* Configuration, and one run of the script                                *)
(*                                                                         *)
(* A run starts from the session s = [step, ad, images, files] (files is   *)
(* the uploader widget's value), with the widget `click` activated and the *)
(* environment's answers e.  Its result says what the session is after     *)
(* the run, what the page shows, what was requested, and how the run       *)
(* ended: by st.rerun() (rerun), by an uncaught exception (crashed), or    *)
(* by running off the end of the script.                                   *)
(***************************************************************************)
\* the four keys of st.secrets the script reads
AllSecrets == {"GEMINI_API_KEY", "WP_URL", "WP_USERNAME", "WP_APP_PASSWORD"}

\* lines 27-32: st.secrets["GEMINI_API_KEY"] raises when the key is absent,
\* and the script stops
ConfigureGemini(keys) == "GEMINI_API_KEY" \in keys

\* lines 73-75 and 108-110: the three lookups upload_to_wordpress and
\* create_wordpress_post make before their try block
WpSecrets == {"WP_URL", "WP_USERNAME", "WP_APP_PASSWORD"}

\* lines 143 and 154: the lookup get_wp_categories and get_wp_tags make
WpListSecrets == {"WP_URL"}

NoPost ==
  [ sent |-> FALSE, status |-> "", title |-> "", content |-> << >>,
    meta |-> "", slug |-> "", categories |-> << >>, tags |-> << >>,
    featured_media |-> 0 ]

\* the value a widget returns: what the user typed, or the default it was given
Unchanged == "<unchanged>"
Field(input, default) == IF input = Unchanged THEN default ELSE input
TextField(input, default) == IF input = << Unchanged >> THEN default ELSE input

\* get_wp_categories / get_wp_tags: the answer of the CMS to a list request
TermsFailure == [ok |-> FALSE, items |-> << >>]
TermsList(items) == [ok |-> TRUE, items |-> items]

\* what a run read from the user and from the CMS: the title and the outline
\* text of the stage-2 form, the answer to each create-media request ("" for
\* an image that was not sent), the answer to the alt-text requests ("" when
\* none was sent), and the two lists of terms
NoInputs ==
  [ title |-> Unchanged, outline_text |-> << Unchanged >>, media |-> << >>,
    alt |-> "", wp_categories |-> TermsFailure, wp_tags |-> TermsFailure ]

\* the result of a run that has done nothing yet
Blank(s) ==
  [ step |-> s.step, ad |-> s.ad, images |-> s.images, files |-> << >>,
    widgets |-> {}, errors |-> {}, gem |-> << >>, answer |-> ServiceFailure,
    cms |-> << >>,
    wp |-> << >>, post |-> NoPost, post_ok |-> FALSE, outcomes |-> << >>,
    failed |-> "", crashed |-> FALSE, rerun |-> FALSE, stopped |-> FALSE,
    inputs |-> NoInputs ]

(***************************************************************************)
(* STEP 1: Topic & Keyword Input                                           *)
(***************************************************************************)
\* a submission that goes one stage too far
Step1SubmitStep_Skip == 2 + 1
Step1SubmitStep == 2

\* article_data.update(seo_data), then the four form values
\* a merge that assigns seo_data instead of updating with it
Step1Merge_Replace(ad, seo_data, e) ==
  Put(Put(Put(Put(seo_data, "topic", e.topic), "keyword", e.keyword),
          "tone", e.tone), "word_count", e.word_count)

Step1Merge(ad, seo_data, e) ==
  Put(Put(Put(Put(DictUpdate(ad, seo_data), "topic", e.topic),
              "keyword", e.keyword), "tone", e.tone), "word_count", e.word_count)

Stage1(s, click, e) ==
  LET page == [Blank(s) EXCEPT !.widgets = {"step1_submit"}]
  IN  IF click = "step1_submit" /\ e.topic # "" /\ e.keyword # ""
      THEN LET call == call_gemini(e.service)
               response == call.value
               asked == [page EXCEPT !.gem = << "seo" >>, !.answer = e.service,
                                    !.errors = call.errors]
           IN  IF ~Truthy(response)
               THEN [asked EXCEPT !.failed = "seo"]
               ELSE LET json_match == JsonSearch(response.text)
                    IN  IF ~json_match.found
                        THEN [asked EXCEPT !.failed = "seo"]
                        ELSE IF ~JsonValid(json_match.text)
                        THEN [asked EXCEPT !.failed = "seo",
                                           !.errors = {"Error parsing response"}]
                        ELSE [asked EXCEPT
                                !.ad = Step1Merge(s.ad, JsonLoads(json_match.text), e),
                                !.step = Step1SubmitStep,
                                !.rerun = TRUE]
      ELSE page

(***************************************************************************)
(* STEP 2: Review & Refine SEO Strategy                                    *)
(***************************************************************************)
Step2BackStep == 1
Step2NextStep == 3

\* json.dumps(outline) and json.loads(outline_text): the text of an outline
\* is "[", its sections, "]"
OutlineDumps(outline) == << "[" >> \o outline \o << "]" >>

OutlineValid(t) ==
  /\ Len(t) >= 2
  /\ t[1] = "["
  /\ t[Len(t)] = "]"
  /\ \A i \in 2..(Len(t) - 1) : t[i] \notin {"[", "]"}

OutlineLoads(t) == SubSeq(t, 2, Len(t) - 1)

\* ", ".join(names)
RECURSIVE CommaJoin(_)
CommaJoin(names) ==
  IF names = << >> THEN << >>
  ELSE IF Len(names) = 1 THEN names[1]
  ELSE names[1] \o << ",", " " >> \o CommaJoin(Tail(names))

\* text.split(',')
RECURSIVE CommaSplit(_)
CommaSplit(text) ==
  LET commas == Positions(text, ",")
  IN  IF commas = {} THEN << text >>
      ELSE LET i == SetMin(commas)
           IN  << SubSeq(text, 1, i - 1) >> \o CommaSplit(SubSeq(text, i + 1, Len(text)))

\* str.strip()
RECURSIVE Strip(_)
Strip(t) ==
  IF t = << >> THEN t
  ELSE IF t[1] \in {" ", "\n"} THEN Strip(Tail(t))
  ELSE IF t[Len(t)] \in {" ", "\n"} THEN Strip(SubSeq(t, 1, Len(t) - 1))
  ELSE t

\* [c.strip() for c in text.split(',')]
SplitNames(text) ==
  LET parts == CommaSplit(text) IN [ i \in 1..Len(parts) |-> Strip(parts[i]) ]

Stage2(s, click, e) ==
  LET data == s.ad
      title == Field(e.title, Get(data, "title", ""))
      meta_desc == Field(e.meta_desc, Get(data, "meta_description", ""))
      slug == Field(e.slug, Get(data, "slug", ""))
      focus == Field(e.focus, Get(data, "focus_keyphrase", ""))
      outline_text == TextField(e.outline_text, OutlineDumps(Get(data, "outline", << >>)))
      categories == TextField(e.categories, CommaJoin(Get(data, "suggested_categories", << >>)))
      tags == TextField(e.tags, CommaJoin(Get(data, "suggested_tags", << >>)))
      page == [Blank(s) EXCEPT
                 !.widgets = {"step2_back", "step2_next"},
                 !.inputs = IF click = "step2_next"
                            THEN [NoInputs EXCEPT !.title = e.title,
                                                  !.outline_text = e.outline_text]
                            ELSE NoInputs]
      four == Put(Put(Put(Put(data, "title", title), "meta_description", meta_desc),
                      "slug", slug), "focus_keyphrase", focus)
  IN  IF click = "step2_back"
      THEN [page EXCEPT !.step = Step2BackStep, !.rerun = TRUE]
      ELSE IF click = "step2_next"
      THEN IF ~OutlineValid(outline_text)
           THEN \* json.loads raises after the first four assignments
                [page EXCEPT !.ad = four, !.crashed = TRUE,
                             !.errors = {"JSONDecodeError"}]
           ELSE [page EXCEPT
                   !.ad = Put(Put(Put(four, "outline", OutlineLoads(outline_text)),
                                  "categories", SplitNames(categories)),
                              "tags", SplitNames(tags)),
                   !.step = Step2NextStep,
                   !.rerun = TRUE]
      ELSE page

(***************************************************************************)
(* STEP 3: Generate Article Content                                        *)
(***************************************************************************)
Step3BackStep == 2

\* a Plan Images button that goes one stage too far
Step3NextStep_Skip == 4 + 1
Step3NextStep == 4

\* re.sub(fence + r'\n?', '', content): drop every fence token and the
\* newline right behind it
RECURSIVE RemoveFence(_, _)
RemoveFence(t, fence) ==
  IF t = << >> THEN t
  ELSE IF t[1] = fence
  THEN IF Len(t) >= 2 /\ t[2] = "\n"
       THEN RemoveFence(SubSeq(t, 3, Len(t)), fence)
       ELSE RemoveFence(Tail(t), fence)
  ELSE << t[1] >> \o RemoveFence(Tail(t), fence)

\* lines 341-344; "<fence html>" and "<fence>" are the code-block fences with and without the html tag
CleanContent(text) == RemoveFence(RemoveFence(Strip(text), "<fence html>"), "<fence>")

\* the keys the prompt of line 306 reads with data[...]
Step3PromptKeys ==
  {"title", "topic", "keyword", "focus_keyphrase", "tone", "word_count", "outline"}

Stage3(s, click, e) ==
  LET absent == "content" \notin DOMAIN s.ad
      call == call_gemini(e.service)
      response == call.value
      generated == IF absent /\ Truthy(response)
                   THEN Put(s.ad, "content", CleanContent(response.text))
                   ELSE s.ad
      \* the text area; its value is stored as content on every run
      edited_content == TextField(e.edited, Get(generated, "content", << >>))
      data == Put(generated, "content", edited_content)
      asked == IF absent
               THEN [Blank(s) EXCEPT !.gem = << "content" >>, !.answer = e.service,
                                     !.errors = call.errors,
                                     !.failed = IF Truthy(response) THEN "" ELSE "content"]
               ELSE Blank(s)
      page == [asked EXCEPT !.ad = data,
                            !.widgets = {"step3_edit", "step3_back", "step3_next"}]
  IN  IF absent /\ ~(Step3PromptKeys \subseteq DOMAIN s.ad)
      THEN [Blank(s) EXCEPT !.crashed = TRUE, !.errors = {"KeyError"}]
      ELSE IF ~({"title", "meta_description"} \subseteq DOMAIN generated)
      THEN [asked EXCEPT !.ad = generated, !.crashed = TRUE, !.errors = {"KeyError"}]
      ELSE IF ~({"keyword", "word_count"} \subseteq DOMAIN data)
      THEN [asked EXCEPT !.ad = data, !.widgets = {"step3_edit"},
                         !.crashed = TRUE, !.errors = {"KeyError"}]
      ELSE IF click = "step3_back"
      THEN [page EXCEPT !.step = Step3BackStep, !.rerun = TRUE]
      ELSE IF click = "step3_next"
      THEN [page EXCEPT !.step = Step3NextStep, !.rerun = TRUE]
      ELSE page

(***************************************************************************)
(* STEP 4: Image Planning                                                  *)
(***************************************************************************)
\* a Back to Content button that goes back two stages
Step4BackStep_Far == 4 - 2
Step4BackStep == 3

Step4NextStep == 5

\* lines 456-464: the prompt, alt-text and caption widgets show the plan;
\* their values are not stored
\* an alt-text widget whose value is written back into the plan
Step4Edited_WriteBack(plan, click) ==
  IF click = "step4_edit" /\ plan["images"] # << >>
  THEN [plan EXCEPT !["images"] = [@ EXCEPT ![1] = [@ EXCEPT !.alt_text = "edited alt"]]]
  ELSE plan

Step4Edited(plan, click) == plan

Stage4(s, click, e) ==
  LET absent == "image_plan" \notin DOMAIN s.ad
      call == call_gemini(e.service)
      response == call.value
      json_match == JsonSearch(response.text)
      parsed == Truthy(response) /\ json_match.found /\ JsonValid(json_match.text)
      data == IF absent /\ parsed
              THEN Put(s.ad, "image_plan", JsonLoads(json_match.text))
              ELSE s.ad
      asked ==
        IF absent
        THEN [Blank(s) EXCEPT
                !.ad = data,
                !.gem = << "image_plan" >>,
                !.answer = e.service,
                !.failed = IF parsed THEN "" ELSE "image_plan",
                !.errors = IF Truthy(response) /\ json_match.found
                              /\ ~JsonValid(json_match.text)
                           THEN {"Error parsing image plan"}
                           ELSE call.errors]
        ELSE Blank(s)
      page == [asked EXCEPT
                 !.ad = Put(data, "image_plan", Step4Edited(data["image_plan"], click)),
                 !.widgets = {"step4_edit", "step4_back", "step4_next"}]
  IN  IF absent /\ ~({"title", "content", "keyword"} \subseteq DOMAIN s.ad)
      THEN [Blank(s) EXCEPT !.crashed = TRUE, !.errors = {"KeyError"}]
      ELSE IF "image_plan" \notin DOMAIN data
      THEN asked
      ELSE IF "images" \notin DOMAIN data["image_plan"]
      THEN \* plan['images'] of line 456 raises
           [asked EXCEPT !.crashed = TRUE, !.errors = asked.errors \cup {"KeyError"}]
      ELSE IF click = "step4_back"
      THEN [page EXCEPT !.step = Step4BackStep, !.rerun = TRUE]
      ELSE IF click = "step4_next"
      THEN [page EXCEPT !.step = Step4NextStep, !.rerun = TRUE]
      ELSE page

(***************************************************************************)
(* STEP 5: Upload Images                                                   *)
(***************************************************************************)
Step5BackStep == 4

Step5NextStep == 6

\* len(plan.get('images', [])) of the plan article_data.get('image_plan', {})
ImagesNeeded(ad) == Len(Get(Get(ad, "image_plan", EmptyDict), "images", << >>))

\* len(uploaded_files) != images_needed (lines 499 and 518)
\* a gate that only refuses too few files
CountMismatch_AtLeast(files, images_needed) == Len(files) < images_needed
CountMismatch(files, images_needed) == Len(files) # images_needed

Stage5(s, click, e) ==
  LET images_needed == ImagesNeeded(s.ad)
      uploaded == s.files
      mismatch == CountMismatch(uploaded, images_needed)
      stored == IF uploaded # << >> /\ ~mismatch THEN uploaded ELSE s.images
      page == [Blank(s) EXCEPT
                 !.files = uploaded,
                 !.images = stored,
                 !.errors = IF uploaded # << >> /\ mismatch
                            THEN {"Please upload exactly"} ELSE {},
                 !.widgets = {"image_upload", "step5_back"}
                             \cup (IF mismatch THEN {} ELSE {"step5_publish"})]
  IN  IF click = "step5_back"
      THEN [page EXCEPT !.step = Step5BackStep, !.rerun = TRUE]
      ELSE IF click = "step5_publish" /\ ~mismatch
      THEN [page EXCEPT !.step = Step5NextStep, !.rerun = TRUE]
      ELSE page

(***************************************************************************)
(* STEP 6: Publish to WordPress                                            *)
(***************************************************************************)
\* an uploaded file is an image PIL can read, or it is not
FileKinds == {"png", "corrupt"}

\* convert_to_webp returns None when PIL raises
convert_to_webp(image_file) == image_file # "corrupt"

\* generate_seo_filename works on the characters of the alt text.  str.lower()
\* on one character:
LowerChar(c) == CASE c = "A" -> "a" [] c = "B" -> "b" [] c = "P" -> "p" [] OTHER -> c

\* the characters \w matches, of those the model writes: letters, digits, "_"
WordChars ==
  { "a", "b", "d", "e", "g", "h", "n", "o", "p", "s", "t", "u", "A", "B", "P",
    "0", "2", "5", "_" }

\* the characters \s matches, of those the model writes
SpaceChars == { " ", "\t", "\n" }

\* re.sub(r'[^\w\s-]', '', text)
RemoveSpecial(text) ==
  SelectSeq(text, LAMBDA c : c \in WordChars \cup SpaceChars \cup {"-"})

\* text with its leading hyphens and whitespace dropped
RECURSIVE SkipRun(_)
SkipRun(text) ==
  IF text # << >> /\ text[1] \in SpaceChars \cup {"-"} THEN SkipRun(Tail(text))
  ELSE text

\* re.sub(r'[-\s]+', '-', text)
\* a substitution without the "+": one hyphen for each character of a run
RECURSIVE CollapseRuns_Each(_)
CollapseRuns_Each(text) ==
  IF text = << >> THEN << >>
  ELSE IF text[1] \in SpaceChars \cup {"-"}
  THEN << "-" >> \o CollapseRuns_Each(Tail(text))
  ELSE << text[1] >> \o CollapseRuns_Each(Tail(text))

RECURSIVE CollapseRuns(_)
CollapseRuns(text) ==
  IF text = << >> THEN << >>
  ELSE IF text[1] \in SpaceChars \cup {"-"}
  THEN << "-" >> \o CollapseRuns(SkipRun(text))
  ELSE << text[1] >> \o CollapseRuns(Tail(text))

\* clean_text[:50]
StemLimit == 50

\* lines 51-60; date is datetime.now().strftime("%Y%m%d")
generate_seo_filename(text, index, date) ==
  LET lowered == [ i \in 1..Len(text) |-> LowerChar(text[i]) ]
      clean_text == CollapseRuns(RemoveSpecial(lowered))
  IN  SubSeq(clean_text, 1, Min(Len(clean_text), StemLimit))
        \o << "-", date, "-", ToString(index), ".webp" >>

\* the id and source_url of the media item the CMS creates for image idx
MediaId(idx) == 10 + idx
SourceUrl(idx) ==
  CASE idx = 1 -> "url1" [] idx = 2 -> "url2" [] idx = 3 -> "url3"
    [] idx = 4 -> "url4" [] OTHER -> "url5"

\* the answers of the CMS to a create-media or create-post request; "refused"
\* stands for a status other than 201 and for a request that raises
CmsAnswers == {"201", "refused"}

\* the answers of the CMS to the alt-text requests of a run: a 2xx status,
\* another status, or none at all (requests.post raises)
AltAnswers == {"200", "refused", "raised"}

Req(op, idx) == [op |-> op, idx |-> idx]

\* the answer the CMS gives to the create-media request of image idx
MediaAnswer(answers, idx) == IF idx \in DOMAIN answers THEN answers[idx] ELSE "refused"

\* upload_to_wordpress: the three lookups of st.secrets come before the try
\* block; the alt-text request follows a 201 inside the try block, its
\* response is not read, and an exception it raises is caught by line 102
upload_to_wordpress(idx, answer, alt, keys) ==
  IF ~(WpSecrets \subseteq keys)
  THEN [raised |-> TRUE, media |-> FALSE, requests |-> << >>]
  ELSE [ raised   |-> FALSE,
         media    |-> answer = "201" /\ alt # "raised",
         requests |-> IF answer = "201"
                      THEN << Req("create_media", idx), Req("set_alt_text", idx) >>
                      ELSE << Req("create_media", idx) >> ]

\* the loop of lines 536-558 from pair idx on, for n pairs; media lists the
\* answer each create-media request got
RECURSIVE ProcessImages(_, _, _, _, _, _, _)
ProcessImages(idx, n, files, plan_images, answers, alt, keys) ==
  IF idx > n
  THEN [wp |-> << >>, cms |-> << >>, outcomes |-> << >>, errors |-> {},
        media |-> << >>, crashed |-> FALSE]
  ELSE LET rest == ProcessImages(idx + 1, n, files, plan_images, answers, alt, keys)
           img_data == plan_images[idx]
       IN  IF ~convert_to_webp(files[idx])
           THEN [rest EXCEPT !.outcomes = << "not converted" >> \o @,
                             !.media = << "" >> \o @,
                             !.errors = @ \cup {"Error converting image"}]
           ELSE LET up == upload_to_wordpress(idx, MediaAnswer(answers, idx), alt, keys)
                IN  IF up.raised
                    THEN [wp |-> << >>, cms |-> << >>, outcomes |-> << "KeyError" >>,
                          errors |-> {"KeyError"}, media |-> << "" >>,
                          crashed |-> TRUE]
                    ELSE IF up.media
                    THEN [rest EXCEPT
                            !.wp = << [ id |-> MediaId(idx),
                                        url |-> SourceUrl(idx),
                                        alt |-> img_data.alt_text,
                                        caption |-> img_data.caption,
                                        position |-> img_data.position,
                                        section_heading |-> img_data.section_heading ] >> \o @,
                            !.cms = up.requests \o @,
                            !.media = << MediaAnswer(answers, idx) >> \o @,
                            !.outcomes = << "uploaded" >> \o @]
                    ELSE [rest EXCEPT
                            !.cms = up.requests \o @,
                            !.media = << MediaAnswer(answers, idx) >> \o @,
                            !.outcomes = << "not uploaded" >> \o @,
                            !.errors = @ \cup {"Failed to upload image"}]

\* line 564
\* a featured image taken from the last upload
FeaturedImageId_Last(wp) == IF wp # << >> THEN wp[Len(wp)].id ELSE 0
FeaturedImageId(wp) == IF wp # << >> THEN wp[1].id ELSE 0

NoNewline(content, from, to) == \A k \in from..to : content[k] # "\n"

\* re.search("<h2>.*?" + re.escape(heading) + ".*?</h2>", content, re.IGNORECASE):
\* the leftmost "<h2>" from which, without crossing a newline, the heading text
\* and then a "</h2>" can be reached; the lazy quantifiers take the nearest
\* heading text and then the nearest "</h2>".  The result is match.end().
HeadingSearch(content, heading) ==
  LET lc == Lower(content)
      lh == Lower(heading)
      n == Len(lc)
      m == Len(lh)
      closeAfter(k) == { c \in (k + m)..n : lc[c] = "</h2>" /\ NoNewline(lc, k + m, c - 1) }
      textAfter(o) == { k \in (o + 1)..(n - m + 1) :
                          /\ SubSeq(lc, k, k + m - 1) = lh
                          /\ NoNewline(lc, o + 1, k - 1)
                          /\ closeAfter(k) # {} }
      starts == { o \in 1..n : lc[o] = "<h2>" /\ textAfter(o) # {} }
  IN  IF starts = {} THEN [found |-> FALSE, end |-> 0]
      ELSE [found |-> TRUE,
            end |-> SetMin(closeAfter(SetMin(textAfter(SetMin(starts)))))]

\* lines 575-578
ImageBlock(img) ==
  << "\n", "<figure>", "<img>", img.url, img.alt >>
    \o (IF img.caption # "" THEN << "<figcaption>", img.caption, "</figcaption>" >>
        ELSE << >>)
    \o << "</figure>", "\n" >>

InsertAt(content, pos, block) ==
  SubSeq(content, 1, pos) \o block \o SubSeq(content, pos + 1, Len(content))

\* one pass of the loop of lines 567-580
InsertImage(content, img) ==
  IF img.section_heading # << >>
  THEN LET match == HeadingSearch(content, img.section_heading)
       IN  IF match.found THEN InsertAt(content, match.end, ImageBlock(img))
           ELSE content
  ELSE content

RECURSIVE InsertImages(_, _)
InsertImages(content, imgs) ==
  IF imgs = << >> THEN content
  ELSE InsertImages(InsertImage(content, imgs[1]), Tail(imgs))

\* get_wp_categories / get_wp_tags: the dict name -> id of a 200 answer,
\* the empty dict otherwise; a repeated name keeps its last id
get_wp_terms(answer) ==
  IF answer.ok
  THEN LET items == answer.items
           names == { items[i].name : i \in 1..Len(items) }
           last(nm) == SetMax({ i \in 1..Len(items) : items[i].name = nm })
       IN  [ nm \in names |-> items[last(nm)].id ]
  ELSE EmptyDict

\* lines 586-594: the ids of the names the dict knows, in the order of names
\* a lookup with wp_categories.get(cat, 0) that keeps a place for unknown names
RECURSIVE ResolveIds_KeepUnknown(_, _)
ResolveIds_KeepUnknown(names, terms) ==
  IF names = << >> THEN << >>
  ELSE (IF names[1] \in DOMAIN terms THEN << terms[names[1]] >> ELSE << 0 >>)
       \o ResolveIds_KeepUnknown(Tail(names), terms)

RECURSIVE ResolveIds(_, _)
ResolveIds(names, terms) ==
  IF names = << >> THEN << >>
  ELSE (IF names[1] \in DOMAIN terms THEN << terms[names[1]] >> ELSE << >>)
       \o ResolveIds(Tail(names), terms)

\* the post_data of create_wordpress_post
\* a post created as published
PostData_Publish(title, content, meta_desc, slug, categories, tags, featured_image_id) ==
  [ sent |-> TRUE, status |-> "publish", title |-> title, content |-> content,
    meta |-> meta_desc, slug |-> slug, categories |-> categories, tags |-> tags,
    featured_media |-> featured_image_id ]

PostData(title, content, meta_desc, slug, categories, tags, featured_image_id) ==
  [ sent |-> TRUE, status |-> "draft", title |-> title, content |-> content,
    meta |-> meta_desc, slug |-> slug, categories |-> categories, tags |-> tags,
    featured_media |-> featured_image_id ]

\* lines 623-624: the post was not created
\* a failure handler that sends the user back to the upload stage
PostFailed_Back(requested) ==
  [requested EXCEPT
     !.step = 5,
     !.failed = "create_post",
     !.errors = @ \cup {"Failed to create WordPress post"}]

PostFailed(requested) ==
  [requested EXCEPT
     !.failed = "create_post",
     !.errors = @ \cup {"Failed to create WordPress post"}]

\* lines 560-624: what follows the image loop, whose result is `loop`
Publish(page, data, loop, e) ==
  LET alt_asked == \E i \in 1..Len(loop.cms) : loop.cms[i].op = "set_alt_text"
      looped == [page EXCEPT
                   !.wp = loop.wp, !.cms = loop.cms,
                   !.outcomes = loop.outcomes, !.errors = loop.errors,
                   !.inputs = [NoInputs EXCEPT
                                 !.media = loop.media,
                                 !.alt = IF alt_asked THEN e.alt ELSE ""]]
  IN  IF loop.crashed
      THEN [looped EXCEPT !.crashed = TRUE]
      ELSE IF ~({"content", "title", "meta_description", "slug"} \subseteq DOMAIN data)
      THEN [looped EXCEPT !.crashed = TRUE, !.errors = @ \cup {"KeyError"}]
      ELSE IF ~(WpListSecrets \subseteq e.secrets)
      THEN \* st.secrets["WP_URL"] of line 143 raises
           [looped EXCEPT !.crashed = TRUE, !.errors = @ \cup {"KeyError"}]
      ELSE
      LET featured_image_id == FeaturedImageId(loop.wp)
          content == InsertImages(data["content"], Rest(loop.wp))
          wp_categories == get_wp_terms(e.wp_categories)
          wp_tags == get_wp_terms(e.wp_tags)
          category_ids == ResolveIds(Get(data, "categories", << >>), wp_categories)
          tag_ids == ResolveIds(Get(data, "tags", << >>), wp_tags)
          post_data == PostData(data["title"], content, data["meta_description"],
                                data["slug"], category_ids, tag_ids, featured_image_id)
          listed == [looped EXCEPT
                       !.cms = @ \o << Req("get_categories", 0), Req("get_tags", 0) >>,
                       !.inputs = [@ EXCEPT !.wp_categories = e.wp_categories,
                                            !.wp_tags = e.wp_tags]]
          requested == [listed EXCEPT
                          !.cms = @ \o << Req("create_post", 0) >>,
                          !.post = post_data]
      IN  IF ~(WpSecrets \subseteq e.secrets)
          THEN \* the lookups of lines 108-110 raise
               [listed EXCEPT !.crashed = TRUE, !.errors = @ \cup {"KeyError"}]
          ELSE IF e.post = "201"
          THEN [requested EXCEPT !.post_ok = TRUE,
                                 !.widgets = @ \cup {"start_new"}]
          ELSE PostFailed(requested)

\* line 526: the body runs in the run the button's click started
\* a publish that runs whenever the stage is rendered
PublishTriggered_Always(click) == TRUE
PublishTriggered(click) == click = "step6_upload"

Stage6(s, click, e) ==
  LET page == [Blank(s) EXCEPT !.widgets = {"step6_upload"}]
      data == s.ad
  IN  IF ~PublishTriggered(click) THEN page
      ELSE IF "image_plan" \notin DOMAIN data
              \/ "images" \notin DOMAIN data["image_plan"]
      THEN [page EXCEPT !.crashed = TRUE, !.errors = {"KeyError"}]
      ELSE
      LET plan_images == data["image_plan"]["images"]
          uploaded_images == s.images
          n == Min(Len(uploaded_images), Len(plan_images))
      IN  Only({ Publish(page, data, loop, e) :
                 loop \in { ProcessImages(1, n, uploaded_images, plan_images,
                                          e.uploads, e.alt, e.secrets) } })

(***************************************************************************)
(* Sidebar, and the script as a whole                                      *)
(***************************************************************************)
ResetStep == 1

\* lines 626-649; the Reset App button does not call st.rerun()
\* a reset that leaves the stored images in place
Sidebar_KeepImages(r, click) ==
  LET page == [r EXCEPT !.widgets = @ \cup {"reset_app"}]
  IN  IF click = "reset_app"
      THEN [page EXCEPT !.step = ResetStep, !.ad = EmptyDict]
      ELSE page

Sidebar(r, click) ==
  LET page == [r EXCEPT !.widgets = @ \cup {"reset_app"}]
  IN  IF click = "reset_app"
      THEN [page EXCEPT !.step = ResetStep, !.ad = EmptyDict, !.images = << >>]
      ELSE page

\* one run; st.stop() of line 32, st.rerun() and an uncaught exception end
\* it before the sidebar
ScriptRun(s, click, e) ==
  Only({ IF r.rerun \/ r.crashed \/ r.stopped THEN r ELSE Sidebar(r, click) :
         r \in { CASE ~ConfigureGemini(e.secrets) ->
                        [Blank(s) EXCEPT !.stopped = TRUE,
                                         !.errors = {"Error configuring Gemini API"}]
                   [] s.step = 1 -> Stage1(s, click, e)
                   [] s.step = 2 -> Stage2(s, click, e)
                   [] s.step = 3 -> Stage3(s, click, e)
                   [] s.step = 4 -> Stage4(s, click, e)
                   [] s.step = 5 -> Stage5(s, click, e)
                   [] s.step = 6 -> Stage6(s, click, e)
                   [] OTHER -> Blank(s) } })

(***************************************************************************)
(* The environment: what the user types and what the services answer       *)
(***************************************************************************)
Topics == {"", "phones"}
Keywords == {"", "budget"}

SeoFull ==
  << "p", "{", "m:title", "m:meta_description", "m:slug", "m:focus_keyphrase",
     "m:outline", "m:suggested_categories", "m:suggested_tags", "}", "p" >>
SeoBare == << "{", "m:topic", "}" >>
SeoTwoObjects == << "{", "m:title", "}", "p", "{", "m:slug", "}" >>
SeoProse == << "p", "p" >>
SeoReversed == << "}", "p", "{" >>

SeoAnswers ==
  {ServiceFailure}
    \cup { ServiceText(t) : t \in {<< >>, SeoFull, SeoBare, SeoTwoObjects,
                                   SeoProse, SeoReversed} }

Titles == {Unchanged, "Phones on a budget"}
OutlineTexts == { << Unchanged >>, << "[", "sec1" >> }
CategoryTexts == { << Unchanged >> }

\* a fenced answer on several lines, and two answers on a single line
ContentFenced ==
  << "<fence html>", "\n", "<h2>", "a", "B", "</h2>", "\n", "<p>", "x", "</p>",
     "\n", "<fence>", "\n" >>
ContentOneLine ==
  << "<h2>", "a", "</h2>", "<p>", "b", "</p>", "<h2>", "a", "</h2>" >>
ContentOneLineTwice ==
  << "<h2>", "a", "</h2>", "<p>", "b", "</p>", "<h2>", "x", "</h2>",
     "<h2>", "b", "</h2>" >>

ContentAnswers ==
  {ServiceFailure}
    \cup { ServiceText(t) : t \in {ContentFenced, ContentOneLine, ContentOneLineTwice} }

ContentEdits == { << "<p>", "x", "</p>" >> }

PlanAnswers ==
  {ServiceFailure}
    \cup { ServiceText(t) : t \in { << "p", "p" >>,
                                    << "{", "m:images1", "}", "p", "}" >>,
                                    << "{", "m:note", "}" >> } }
    \cup { ServiceText(<< "p", "{", ImagesTokOf(n), "}" >>) : n \in 0..MaxImages }

CategoryAnswers ==
  { TermsFailure,
    TermsList(<< [name |-> << "News" >>, id |-> 3],
                 [name |-> << "phones" >>, id |-> 5] >>) }

TagAnswers ==
  { TermsFailure, TermsList(<< [name |-> << "budget" >>, id |-> 7] >>) }

\* the answers to the two list requests of a publish run: both lists, the
\* categories alone, or neither
TermsAnswers ==
  { [categories |-> c, tags |-> t] : c \in CategoryAnswers, t \in TagAnswers }
    \ { [categories |-> c, tags |-> t] :
          c \in {TermsFailure}, t \in TagAnswers \ {TermsFailure} }

DefaultEnv ==
  [ topic |-> "", keyword |-> "", tone |-> "Casual", word_count |-> 1500,
    service |-> ServiceFailure,
    title |-> Unchanged, meta_desc |-> Unchanged, slug |-> Unchanged,
    focus |-> Unchanged, outline_text |-> << Unchanged >>,
    categories |-> << Unchanged >>, tags |-> << Unchanged >>,
    edited |-> << Unchanged >>,
    uploads |-> << >>, alt |-> "200",
    wp_categories |-> TermsFailure, wp_tags |-> TermsFailure,
    post |-> "refused", secrets |-> AllSecrets ]

\* the answers the generation service may give to the request that a run
\* from session s with `click` activated issues (one answer when it issues none)
ServiceAnswers(s, click) ==
  CASE s.step = 1 /\ click = "step1_submit" -> SeoAnswers
    [] s.step = 3 /\ "content" \notin DOMAIN s.ad -> ContentAnswers
    [] s.step = 4 /\ "image_plan" \notin DOMAIN s.ad -> PlanAnswers
    [] OTHER -> {ServiceFailure}

(***************************************************************************)
(* State machine                                                           *)
(***************************************************************************)
Session == [step |-> step, ad |-> article_data, images |-> images,
            files |-> uploaded_files]

SessionOf(r) == [step |-> r.step, ad |-> r.ad, images |-> r.images, files |-> r.files]

\* no call of generate_seo_filename is being looked at
NoFilenameInput == [text |-> << >>, index |-> 0, date |-> ""]

\* the session and the page after the first run of the script, with the
\* keys `keys` in st.secrets
FirstRun(keys) ==
  /\ step = 1
  /\ article_data = EmptyDict
  /\ images = << >>
  /\ uploaded_files = << >>
  /\ widgets = IF ConfigureGemini(keys) THEN {"step1_submit", "reset_app"} ELSE {}
  /\ errors = IF ConfigureGemini(keys) THEN {} ELSE {"Error configuring Gemini API"}
  /\ gemini_log = << >>
  /\ gemini_answer = ServiceFailure
  /\ cms_log = << >>
  /\ wp_images = << >>
  /\ post_req = NoPost
  /\ post_ok = FALSE
  /\ img_outcomes = << >>
  /\ failed = ""
  /\ last_click = "none"
  /\ inputs = NoInputs

\* the application configured with its four secrets
Init ==
  /\ secrets = AllSecrets
  /\ FirstRun(secrets)
  /\ filename_in = NoFilenameInput
  /\ filename_out = << >>

\* the session and the page after the interaction's last run r
Commit(click, gem, answer, typed, r) ==
  /\ step' = r.step
  /\ article_data' = r.ad
  /\ images' = r.images
  /\ uploaded_files' = r.files
  /\ widgets' = r.widgets
  /\ errors' = r.errors
  /\ gemini_log' = gem \o r.gem
  /\ gemini_answer' = IF gem # << >> THEN answer ELSE r.answer
  /\ cms_log' = r.cms
  /\ wp_images' = r.wp
  /\ post_req' = r.post
  /\ post_ok' = r.post_ok
  /\ img_outcomes' = r.outcomes
  /\ failed' = r.failed
  /\ last_click' = click
  /\ inputs' = IF typed # NoInputs THEN typed ELSE r.inputs
  /\ UNCHANGED << secrets, filename_in, filename_out >>

\* the user activates `click` with the uploader holding `files`: the run
\* this starts and, if it ends in st.rerun(), the run that follows
Interact(click, files, e) ==
  \E r1 \in { ScriptRun([Session EXCEPT !.files = files], click,
                        [e EXCEPT !.secrets = secrets]) } :
    IF r1.rerun
    THEN \E svc \in ServiceAnswers(SessionOf(r1), "none") :
           \E r2 \in { ScriptRun(SessionOf(r1), "none",
                                 [DefaultEnv EXCEPT !.service = svc,
                                                    !.secrets = secrets]) } :
             Commit(click, r1.gem, r1.answer, r1.inputs, r2)
    ELSE Commit(click, << >>, ServiceFailure, NoInputs, r1)

Step1Submit ==
  /\ step = 1 /\ "step1_submit" \in widgets
  /\ \E topic \in Topics, keyword \in Keywords :
     \E svc \in IF topic # "" /\ keyword # "" THEN SeoAnswers ELSE {ServiceFailure} :
       Interact("step1_submit", uploaded_files,
                [DefaultEnv EXCEPT !.topic = topic, !.keyword = keyword,
                                   !.service = svc])

Step2Back ==
  /\ step = 2 /\ "step2_back" \in widgets
  /\ Interact("step2_back", uploaded_files, DefaultEnv)

Step2Next ==
  /\ step = 2 /\ "step2_next" \in widgets
  /\ \E title \in Titles, outline_text \in OutlineTexts, categories \in CategoryTexts :
       Interact("step2_next", uploaded_files,
                [DefaultEnv EXCEPT !.title = title, !.outline_text = outline_text,
                                   !.categories = categories])

Step3Edit ==
  /\ step = 3 /\ "step3_edit" \in widgets
  /\ \E text \in ContentEdits, svc \in ServiceAnswers(Session, "step3_edit") :
       Interact("step3_edit", uploaded_files,
                [DefaultEnv EXCEPT !.edited = text, !.service = svc])

Step3Back ==
  /\ step = 3 /\ "step3_back" \in widgets
  /\ \E svc \in ServiceAnswers(Session, "step3_back") :
       Interact("step3_back", uploaded_files, [DefaultEnv EXCEPT !.service = svc])

Step3Next ==
  /\ step = 3 /\ "step3_next" \in widgets
  /\ \E svc \in ServiceAnswers(Session, "step3_next") :
       Interact("step3_next", uploaded_files, [DefaultEnv EXCEPT !.service = svc])

Step4Edit ==
  /\ step = 4 /\ "step4_edit" \in widgets
  /\ Interact("step4_edit", uploaded_files, DefaultEnv)

Step4Back ==
  /\ step = 4 /\ "step4_back" \in widgets
  /\ Interact("step4_back", uploaded_files, DefaultEnv)

Step4Next ==
  /\ step = 4 /\ "step4_next" \in widgets
  /\ Interact("step4_next", uploaded_files, DefaultEnv)

\* the user adds a file to the uploader or removes one from it
Step5Upload ==
  /\ step = 5 /\ "image_upload" \in widgets
  /\ \/ /\ Len(uploaded_files) < MaxFiles
        /\ \E f \in FileKinds :
             Interact("image_upload", Append(uploaded_files, f), DefaultEnv)
     \/ \E i \in 1..Len(uploaded_files) :
          Interact("image_upload",
                   SubSeq(uploaded_files, 1, i - 1)
                     \o SubSeq(uploaded_files, i + 1, Len(uploaded_files)),
                   DefaultEnv)

Step5Back ==
  /\ step = 5 /\ "step5_back" \in widgets
  /\ Interact("step5_back", uploaded_files, DefaultEnv)

Step5Publish ==
  /\ step = 5 /\ "step5_publish" \in widgets
  /\ Interact("step5_publish", uploaded_files, DefaultEnv)

\* the images of the session for which a publish run sends a create-media
\* request: those paired with a descriptor that convert
SentImages ==
  { i \in 1..Min(Len(images), ImagesNeeded(article_data)) : convert_to_webp(images[i]) }

\* the answers to the alt-text requests that follow the create-media answers
\* `uploads` (one answer when no alt-text request follows)
AltAnswersAfter(uploads) ==
  IF \E i \in DOMAIN uploads : uploads[i] = "201" THEN AltAnswers ELSE {"200"}

Step6Upload ==
  /\ step = 6 /\ "step6_upload" \in widgets
  /\ \E uploads \in [SentImages -> CmsAnswers],
        terms \in TermsAnswers, post \in CmsAnswers :
     \E alt \in AltAnswersAfter(uploads) :
       Interact("step6_upload", uploaded_files,
                [DefaultEnv EXCEPT !.uploads = uploads, !.alt = alt,
                                   !.wp_categories = terms.categories,
                                   !.wp_tags = terms.tags, !.post = post])

\* the button rendered inside the block of the publish button
StartNewArticle ==
  /\ "start_new" \in widgets
  /\ Interact("start_new", uploaded_files, DefaultEnv)

ResetApp ==
  /\ "reset_app" \in widgets
  /\ \E svc \in ServiceAnswers(Session, "reset_app") :
       Interact("reset_app", uploaded_files, [DefaultEnv EXCEPT !.service = svc])

\* the script runs again with no widget activated (Rerun in the app menu, or
\* a widget of a page that is no longer the page of the current step)
Rerun ==
  \E svc \in ServiceAnswers(Session, "none") :
    Interact("none", uploaded_files, [DefaultEnv EXCEPT !.service = svc])

Next ==
  \/ Step1Submit
  \/ Step2Back
  \/ Step2Next
  \/ Step3Edit
  \/ Step3Back
  \/ Step3Next
  \/ Step4Edit
  \/ Step4Back
  \/ Step4Next
  \/ Step5Upload
  \/ Step5Back
  \/ Step5Publish
  \/ Step6Upload
  \/ StartNewArticle
  \/ ResetApp
  \/ Rerun

Spec == Init /\ [][Next]_vars

(***************************************************************************)
(* The application started with any of its four secrets missing            *)
(***************************************************************************)
SecretSets == {AllSecrets} \cup { AllSecrets \ {k} : k \in AllSecrets }

InitConfig ==
  /\ secrets \in SecretSets
  /\ FirstRun(secrets)
  /\ filename_in = NoFilenameInput
  /\ filename_out = << >>

SpecConfig == InitConfig /\ [][Next]_vars

(***************************************************************************)
(* generate_seo_filename on its own: alt texts of up to MaxText characters *)
(* of FilenameChars, some longer ones, and the example of the              *)
(* specification                                                           *)
(***************************************************************************)
MaxText == 4

FilenameChars == { "A", "b", "_", " ", "-", "!" }

ShortTexts == UNION { [1..n -> FilenameChars] : n \in 0..MaxText }

\* texts of StemLimit - 2 .. StemLimit + 3 characters that repeat a pattern
LongTexts ==
  { [ i \in 1..n |-> pat[(i % Len(pat)) + 1] ] :
      n \in (StemLimit - 2)..(StemLimit + 3),
      pat \in { << "a" >>, << "a", " ", "-" >>, << "A", "!" >> } }

\* "Best Budget Phone!! 2025"
ExampleText ==
  << "B", "e", "s", "t", " ", "B", "u", "d", "g", "e", "t", " ",
     "P", "h", "o", "n", "e", "!", "!", " ", "2", "0", "2", "5" >>

FilenameInputs ==
  { [text |-> t, index |-> i, date |-> d] :
      t \in ShortTexts \cup LongTexts \cup {ExampleText},
      i \in {1, 3}, d \in {"20250101"} }

InitFilename ==
  /\ secrets = AllSecrets
  /\ FirstRun(secrets)
  /\ filename_in \in FilenameInputs
  /\ filename_out = << >>

GenerateFilename ==
  /\ filename_out = << >>
  /\ filename_out' = generate_seo_filename(filename_in.text, filename_in.index,
                                           filename_in.date)
  /\ UNCHANGED << step, article_data, images, uploaded_files, widgets, errors,
                  gemini_log, gemini_answer, cms_log, wp_images, post_req, post_ok,
                  img_outcomes, failed, last_click, secrets, inputs, filename_in >>

NextFilename == GenerateFilename

SpecFilename == InitFilename /\ [][NextFilename]_vars

(***************************************************************************)
(* Properties                                                              *)
(***************************************************************************)
ForwardWidget(s) ==
  CASE s = 1 -> "step1_submit" [] s = 2 -> "step2_next" [] s = 3 -> "step3_next"
    [] s = 4 -> "step4_next" [] s = 5 -> "step5_publish" [] OTHER -> "no forward widget"

BackWidget(s) ==
  CASE s = 2 -> "step2_back" [] s = 3 -> "step3_back" [] s = 4 -> "step4_back"
    [] s = 5 -> "step5_back" [] OTHER -> "no back widget"

\* C1: the stage is always in 1..6, and every change of stage is a forward
\* action raising it by exactly 1, a Back action lowering it by exactly 1,
\* or a full reset setting it to 1 (with the article and the images emptied);
\* no action skips a stage forward.
C1_StageMoves ==
  /\ [](step \in 1..6)
  /\ [][ \/ step' = step
         \/ step' = step + 1 /\ last_click' = ForwardWidget(step)
         \/ step' = step - 1 /\ last_click' = BackWidget(step)
         \/ /\ step' = 1
            /\ last_click' = "reset_app"
            /\ article_data' = EmptyDict
            /\ images' = << >> ]_vars

C1_Witness == step = 6 /\ last_click = "step5_publish"

\* C2: a Back action at stage s in 2..5 sets the stage to s-1 and leaves the
\* article record (every field and its value) and the stored images as they were.
C2_BackKeepsData ==
  [][ (step \in 2..5 /\ last_click' = BackWidget(step))
        => /\ step' = step - 1
           /\ article_data' = article_data
           /\ images' = images ]_vars

C2_Witness ==
  /\ step = 4
  /\ last_click = "step5_back"
  /\ images # << >>
  /\ "image_plan" \in DOMAIN article_data

\* C3: the set of fields present in the article record only grows from one
\* state to the next, whatever the transition; it shrinks only by a full
\* reset, which empties the record.
C3_FieldsOnlyGrow ==
  [][ \/ DOMAIN article_data \subseteq DOMAIN article_data'
      \/ last_click' = "reset_app" /\ article_data' = EmptyDict ]_vars

C3_Witness ==
  /\ step = 2
  /\ last_click = "step1_submit"
  /\ {"content", "image_plan"} \subseteq DOMAIN article_data

\* C4: at stage 5 the Publish button is enabled exactly when the number of
\* files in the uploader equals the number of descriptors of image_plan; the
\* stage becomes 6 only from such a state, and a set of files of any other
\* size is not stored in the session images.
C4_PublishGate ==
  /\ [](step = 5 => ("step5_publish" \in widgets
                       <=> Len(uploaded_files) = ImagesNeeded(article_data)))
  /\ [][ /\ (step = 5 /\ step' = 6)
              => /\ last_click' = "step5_publish"
                 /\ Len(uploaded_files) = ImagesNeeded(article_data)
         /\ (step = 5 /\ step' = 5
               /\ Len(uploaded_files') # ImagesNeeded(article_data'))
              => images' = images ]_vars

C4_Witness ==
  /\ step = 5
  /\ "step5_publish" \in widgets
  /\ Len(uploaded_files) = 2
  /\ images = uploaded_files

\* the indices of the images the last publish run uploaded
UploadedIdx == { i \in 1..Len(img_outcomes) : img_outcomes[i] = "uploaded" }

H2Closes(content, o) ==
  { c \in (o + 1)..Len(content) : LowerTok(content[c]) = "</h2>" }

H2Opens(content) ==
  { o \in 1..Len(content) : LowerTok(content[o]) = "<h2>" /\ H2Closes(content, o) # {} }

\* the element opening at o has the heading text in its inner text, case ignored
InnerContains(content, o, heading) ==
  LET c == SetMin(H2Closes(content, o))
      m == Len(heading)
  IN  \E k \in (o + 1)..(c - m) :
        Lower(SubSeq(content, k, k + m - 1)) = Lower(heading)

MatchingHeadings(content, heading) ==
  { o \in H2Opens(content) : InnerContains(content, o, heading) }

\* the position of the closing tag of the first heading element that matches
FirstMatchClose(content, heading) ==
  SetMin(H2Closes(content, SetMin(MatchingHeadings(content, heading))))

\* the content as the publish run had it before it handled wp_images[k]
ContentBefore(k) == InsertImages(article_data["content"], SubSeq(wp_images, 2, k - 1))

\* C6: for every uploaded image but the first that has a section heading: if
\* some level-2 heading element of the content contains that heading (case
\* ignored), the image block is inserted right after the closing tag of the
\* first such element, and the content is otherwise unchanged.
C6_SpliceAfterHeading ==
  last_click = "step6_upload" =>
    \A k \in 2..Len(wp_images) :
      LET img == wp_images[k]
          before == ContentBefore(k)
      IN  (img.section_heading # << >>
             /\ MatchingHeadings(before, img.section_heading) # {})
            => InsertImage(before, img)
                 = InsertAt(before, FirstMatchClose(before, img.section_heading),
                            ImageBlock(img))

\* C7: when no level-2 heading element of the content contains the image's
\* heading, the image leaves the content unchanged, and the publish run goes
\* on to the category and tag requests and the create-post request.
C7_NoMatchNoInsert ==
  last_click = "step6_upload" =>
    /\ \A k \in 2..Len(wp_images) :
         LET img == wp_images[k]
             before == ContentBefore(k)
         IN  (img.section_heading # << >>
                /\ MatchingHeadings(before, img.section_heading) = {})
               => InsertImage(before, img) = before
    /\ post_req.sent
    /\ post_req.content = ContentBefore(Len(wp_images) + 1)
    /\ {Req("get_categories", 0), Req("get_tags", 0), Req("create_post", 0)}
         \subseteq Range(cms_log)

\* C8: when the user activates Start New Article, offered after a post was
\* created, the session is back at stage 1 with an empty article record and
\* no stored images.
C8_StartNewResets ==
  [][ last_click' = "start_new"
        => /\ step' = 1
           /\ article_data' = EmptyDict
           /\ images' = << >> ]_vars

\* an interaction other than a full reset that issues the request `kind` again
Reissues(kind) ==
  /\ \/ Step1Submit \/ Step2Back \/ Step2Next \/ Step3Edit \/ Step3Back \/ Step3Next
     \/ Step4Edit \/ Step4Back \/ Step4Next \/ Step5Upload \/ Step5Back
     \/ Step5Publish \/ Step6Upload \/ StartNewArticle \/ Rerun
  /\ IF kind = "create_post" THEN Req("create_post", 0) \in Range(cms_log')
     ELSE kind \in Range(gemini_log')

\* C9: after a request failed (the generation request of stage 1, 3 or 4
\* failed or its answer could not be parsed, or the create-post request of
\* stage 6 failed), the user has, at that stage and without a full reset, an
\* action that issues the request again.
C9_RetryAvailable ==
  (failed # "" /\ last_click # "reset_app") => ENABLED Reissues(failed)

\* whether a text has a "{" with a "}" somewhere behind it
HasBracePair(text) ==
  \E i, j \in 1..Len(text) : i < j /\ text[i] = "{" /\ text[j] = "}"

\* C10: a stage-1 submission that called the generation service advances to
\* stage 2, with the decoded fields and topic, keyword, tone and word_count
\* merged into the article, only when the call succeeded and a JSON object
\* was extracted and decoded; otherwise the stage stays 1, the article is
\* unchanged and an error is shown.
C10_Step1Outcome ==
  [][ (last_click' = "step1_submit" /\ gemini_log' # << >>)
        => IF /\ gemini_answer'.ok
              /\ HasBracePair(gemini_answer'.text)
              /\ JsonValid(JsonSearch(gemini_answer'.text).text)
           THEN /\ step' = 2
                /\ LET seo_data == JsonLoads(JsonSearch(gemini_answer'.text).text)
                   IN  /\ DOMAIN article_data'
                            = DOMAIN article_data \cup DOMAIN seo_data
                                \cup {"topic", "keyword", "tone", "word_count"}
                       /\ \A k \in DOMAIN seo_data
                                     \ {"topic", "keyword", "tone", "word_count"} :
                            article_data'[k] = seo_data[k]
           ELSE /\ step' = 1
                /\ article_data' = article_data
                /\ errors' # {} ]_vars

\* the pairs (i, j) for which text[i..j] is a JSON object
ObjectsIn(text) ==
  { p \in (1..Len(text)) \X (1..Len(text)) :
      p[1] < p[2] /\ JsonValid(SubSeq(text, p[1], p[2])) }

\* the stage at which a generation request is issued
StageOfRequest(kind) == CASE kind = "seo" -> 1 [] kind = "content" -> 3 [] OTHER -> 4

\* C11: when the answer to the stage-1 or stage-4 request contains exactly one
\* JSON object, with any prose around it, the extraction yields exactly that
\* object's text and what is stored is that object decoded; when the answer
\* has no "{" with a "}" behind it, the extraction fails, nothing is stored
\* and the stage stays where the request was issued.  (A run in which Reset
\* App was activated is left aside: it empties the record afterwards.)
C11_Extraction ==
  [][ (/\ gemini_log' \in { << "seo" >>, << "image_plan" >> }
       /\ gemini_answer'.ok
       /\ last_click' # "reset_app")
        => LET text == gemini_answer'.text
               objs == ObjectsIn(text)
               kind == gemini_log'[1]
           IN  /\ Cardinality(objs) = 1
                    => LET o == Only(objs)
                           obj == SubSeq(text, o[1], o[2])
                       IN  /\ JsonSearch(text) = [found |-> TRUE, text |-> obj]
                           /\ IF kind = "seo"
                              THEN \A k \in DOMAIN JsonLoads(obj)
                                           \ {"topic", "keyword", "tone", "word_count"} :
                                     /\ k \in DOMAIN article_data'
                                     /\ article_data'[k] = JsonLoads(obj)[k]
                              ELSE /\ "image_plan" \in DOMAIN article_data'
                                   /\ article_data'["image_plan"] = JsonLoads(obj)
               /\ ~HasBracePair(text)
                    => /\ ~JsonSearch(text).found
                       /\ step' = StageOfRequest(kind)
                       /\ IF kind = "seo" THEN article_data' = article_data
                          ELSE "image_plan" \notin DOMAIN article_data' ]_vars

\* C12: an activation of the publish button issues at most one create-post
\* request; that request comes last, after every stored image has been
\* converted and sent or reported as failed, and its status is "draft".
C12_OneDraftPost ==
  LET posts == Positions(cms_log, Req("create_post", 0))
  IN  /\ Cardinality(posts) <= 1
      /\ post_req.sent <=> posts # {}
      /\ posts # {}
           => /\ last_click = "step6_upload"
              /\ posts = {Len(cms_log)}
              /\ Len(img_outcomes) = Len(images)
              /\ \A i \in 1..Len(images) :
                   img_outcomes[i] \in {"uploaded", "not uploaded", "not converted"}
              /\ post_req.status = "draft"

C12_Witness ==
  /\ last_click = "step6_upload"
  /\ img_outcomes = << "not converted", "uploaded" >>
  /\ cms_log[Len(cms_log)] = Req("create_post", 0)
  /\ post_req.status = "draft"

\* C13: when the create-post request of a publish run fails, the stage is
\* still 6, the article record and the stored images are what they were
\* before the button was activated, and the button is offered again.
C13_FailedPostKeepsState ==
  [][ (last_click' = "step6_upload" /\ post_req'.sent /\ ~post_ok')
        => /\ step = 6
           /\ step' = 6
           /\ article_data' = article_data
           /\ images' = images
           /\ "step6_upload" \in widgets' ]_vars

C13_Witness ==
  /\ last_click = "step6_upload"
  /\ post_req.sent
  /\ ~post_ok
  /\ failed = "create_post"
  /\ step = 6
  /\ Len(images) = 2

\* the k-th smallest element of a set of numbers
Kth(S, k) == CHOOSE x \in S : Cardinality({ y \in S : y < x }) = k - 1

\* the ids the list `answer` of the CMS gives to those of `names` that equal
\* the name of one of its items, in the order of names
ExpectedIds(names, answer) ==
  LET items == IF answer.ok THEN answer.items ELSE << >>
      known == { i \in 1..Len(names) :
                   \E j \in 1..Len(items) : items[j].name = names[i] }
      idOf(nm) == items[CHOOSE j \in 1..Len(items) : items[j].name = nm].id
  IN  [ k \in 1..Cardinality(known) |-> idOf(names[Kth(known, k)]) ]

\* C14: the category ids and the tag ids of the create-post request are the
\* ids of exactly those requested names that equal, case included, a name of
\* the list the CMS returned; a name not in the list is left out, a failed
\* list request leaves every name out, and no request creates a term.
C14_TermsResolved ==
  post_req.sent =>
    /\ post_req.categories
         = ExpectedIds(Get(article_data, "categories", << >>), inputs.wp_categories)
    /\ post_req.tags = ExpectedIds(Get(article_data, "tags", << >>), inputs.wp_tags)
    /\ ~inputs.wp_categories.ok => post_req.categories = << >>
    /\ ~inputs.wp_tags.ok => post_req.tags = << >>
    /\ \A i \in 1..Len(cms_log) :
         cms_log[i].op \in {"create_media", "set_alt_text", "get_categories",
                            "get_tags", "create_post"}

C14_Witness ==
  /\ post_req.sent
  /\ "categories" \in DOMAIN article_data
  /\ article_data["categories"] = << << "News" >>, << "Phones" >> >>
  /\ inputs.wp_categories.ok
  /\ post_req.categories = << 3 >>
  /\ post_req.tags = << 7 >>

\* C15: Generate Article at stage 2 with an outline text that is not valid
\* JSON leaves the stage at 2 and the article record as it was before the
\* submission; with a valid outline text the edited fields are written back
\* and the stage becomes 3.
C15_OutlineGate ==
  [][ last_click' = "step2_next"
        => LET outline_text ==
                 TextField(inputs'.outline_text,
                           OutlineDumps(Get(article_data, "outline", << >>)))
           IN  IF OutlineValid(outline_text)
               THEN /\ step' = 3
                    /\ {"title", "meta_description", "slug", "focus_keyphrase",
                         "outline", "categories", "tags"} \subseteq DOMAIN article_data'
                    /\ article_data'["title"]
                         = Field(inputs'.title, Get(article_data, "title", ""))
                    /\ article_data'["outline"] = OutlineLoads(outline_text)
               ELSE /\ step' = 2
                    /\ article_data' = article_data ]_vars

\* C16: when one of the four secrets is absent the script stops at startup:
\* no stage is shown, no request is ever issued, and no lookup of a missing
\* secret fails inside a stage.
C16_HaltsAtStartup ==
  secrets # AllSecrets =>
    /\ widgets = {}
    /\ errors = {"Error configuring Gemini API"}
    /\ step = 1
    /\ gemini_log = << >>
    /\ cms_log = << >>

\* whether alt-text character c is a hyphen or whitespace
IsSeparator(c) == c \in SpaceChars \cup {"-"}

\* the positions of text that give the stem a character: those of the word
\* characters, and that of the first character of each run of hyphens and
\* whitespace (a run is not broken by characters that are removed)
StemPositions(text) ==
  LET kept == { i \in 1..Len(text) :
                  LowerChar(text[i]) \in WordChars \/ IsSeparator(text[i]) }
      before(i) == { j \in kept : j < i }
  IN  { i \in kept : \/ ~IsSeparator(text[i])
                     \/ before(i) = {}
                     \/ ~IsSeparator(text[SetMax(before(i))]) }

ExpectedStem(text) ==
  LET P == StemPositions(text)
  IN  [ k \in 1..Min(Cardinality(P), 50) |->
          IF IsSeparator(text[Kth(P, k)]) THEN "-" ELSE LowerChar(text[Kth(P, k)]) ]

\* C17: generate_seo_filename(alt text, i) is <stem>-<date>-<i>.webp, the
\* stem being the alt text in lower case, without the characters that are
\* neither word characters nor whitespace nor hyphens, with each run of
\* whitespace and hyphens replaced by one hyphen, cut to 50 characters.
C17_Filename ==
  filename_out # << >> =>
    filename_out
      = ExpectedStem(filename_in.text)
          \o << "-", filename_in.date, "-", ToString(filename_in.index), ".webp" >>

C17_Witness ==
  /\ filename_in.text = ExampleText
  /\ filename_in.index = 3
  /\ filename_out
       = << "b", "e", "s", "t", "-", "b", "u", "d", "g", "e", "t", "-",
            "p", "h", "o", "n", "e", "-", "2", "0", "2", "5",
            "-", "20250101", "-", "3", ".webp" >>

C19_AltTextFireAndForget ==
  last_click = "step6_upload" =>
    \A i \in 1..Len(inputs.media) :
      /\ Req("set_alt_text", i) \in Range(cms_log)
           => /\ inputs.media[i] = "201"
              /\ \E a, b \in 1..Len(cms_log) :
                   /\ a < b
                   /\ cms_log[a] = Req("create_media", i)
                   /\ cms_log[b] = Req("set_alt_text", i)
      /\ inputs.media[i] = "201"
           => \E k \in 1..Len(wp_images) :
                wp_images[k].id = MediaId(i) /\ wp_images[k].url = SourceUrl(i)

\* C20: a request goes to the CMS only in an interaction that activates the
\* publish button at stage 6; entering stage 6 or rendering it again sends none.
C20_ExplicitTrigger ==
  [][ (cms_log' # << >> \/ post_req'.sent)
        => (step = 6 /\ last_click' = "step6_upload") ]_vars

C20_Witness ==
  /\ step = 6
  /\ last_click = "step6_upload"
  /\ Req("create_media", 1) \in Range(cms_log)
  /\ Req("set_alt_text", 1) \in Range(cms_log)
  /\ post_req.sent

\* C21: the stage never runs ahead of the data: from stage 2 on the article
\* record holds topic, keyword, tone and word_count; from stage 3 on also
\* title, meta_description, slug, focus_keyphrase, outline, categories and
\* tags; from stage 5 on also image_plan.
C21_DataBeforeStage ==
  /\ step >= 2 => {"topic", "keyword", "tone", "word_count"} \subseteq DOMAIN article_data
  /\ step >= 3 => {"title", "meta_description", "slug", "focus_keyphrase",
                   "outline", "categories", "tags"} \subseteq DOMAIN article_data
  /\ step >= 5 => "image_plan" \in DOMAIN article_data

C21_Witness ==
  /\ step = 5
  /\ "image_plan" \in DOMAIN article_data
  /\ "title" \in DOMAIN article_data
  /\ article_data["title"] = ""
  /\ "suggested_categories" \notin DOMAIN article_data

====
